---------------------------- MODULE Spec2Model ----------------------------
(***************************************************************************)
(* EcoCor extractor (src/extractor/main.py): word-frequency extraction     *)
(* over text segments.                                                     *)
(*                                                                         *)
(* One thread runs process_text for one request.  The module-level         *)
(* variable nlp of main.py is shared by all threads of a process; the      *)
(* string hash seed of the Python process fixes the iteration order of     *)
(* every set of strings in that process.                                   *)
(*                                                                         *)
(*   Spec        the command-line run (main.py lines 173-185): one         *)
(*               process, one call of process_text on the main thread,     *)
(*               inputs drawn from all bounded requests.                   *)
(*   SpecServer  the FastAPI service: process_text is a synchronous        *)
(*               endpoint, so two requests run on two worker threads of    *)
(*               one process; the process may be restarted.                *)
(***************************************************************************)
EXTENDS Integers, Sequences, FiniteSets, TLC

VARIABLES
    hashseed,             \* the process's string hash order (PYTHONHASHSEED)
    nlp,                  \* module-level global nlp: "none" or the loaded model
    loads,                \* spacy.load calls per language since process start
    segments,             \* per thread: request field segments
    language,             \* per thread: request field language
    word_list,            \* per thread: word list found at the request's url
    pc,                   \* per thread: position in process_text
    word_to_word_info,    \* per thread: local dict word -> list of entries
    unique_words,         \* per thread: local set of the word list's words
    pipe_nlp,             \* per thread: model the nlp.pipe generator runs on
    i,                    \* per thread: index of enumerate(nlp.pipe(...))
    word_to_segment_frq,  \* per thread: local insertion-ordered dict
    result                \* per thread: word_list of the returned object

vars == << hashseed, nlp, loads, segments, language, word_list, pc,
           word_to_word_info, unique_words, pipe_nlp, i,
           word_to_segment_frq, result >>

---------------------------------------------------------------------------
(* Bounds of the model *)

MaxSegs == 2

MaxTokens == 2

MaxEntries == 2

---------------------------------------------------------------------------
(* Value sets *)

Threads == {"t1", "t2"}

MainThread == "t1"

Language == {"en", "de"}

SegIds == {"s1", "s2"}

Surface == {"oaks", "Oak", "elm"}

Words == {"oak", "elm"}

EntryPool ==
    { [word |-> "oak", wikidata_ids |-> <<"Q1">>, category |-> "plant"],
      [word |-> "oak", wikidata_ids |-> <<"Q2">>, category |-> "material"],
      [word |-> "elm", wikidata_ids |-> <<"Q3">>, category |-> "plant"] }

Range(s) == {s[k] : k \in DOMAIN s}

SeqsUpTo(S, n) == UNION {[1..k -> S] : k \in 0..n}

Segment == [segment_id : SegIds, text : SeqsUpTo(Surface, MaxTokens)]

RECURSIVE TotalTokens(_)
TotalTokens(segs) ==
    IF segs = <<>> THEN 0 ELSE Len(Head(segs).text) + TotalTokens(Tail(segs))

\* The requests of the model.  The code never looks into a segment id, so
\* up to a renaming of the ids the first segment's id is "s1".
Requests ==
    {segs \in SeqsUpTo(Segment, MaxSegs) :
        /\ TotalTokens(segs) <= MaxTokens
        /\ segs # <<>> => segs[1].segment_id = "s1"}

WordLists == SeqsUpTo(EntryPool, MaxEntries)

\* The orders in which a process may iterate a set of strings: one total
\* order of the strings per hash seed.
Seeds == {s \in [1..Cardinality(Words) -> Words] : Range(s) = Words}

---------------------------------------------------------------------------
(* The lemmatizer (spaCy model), an external collaborator: one lemma per   *)
(* token.  The English model reduces the plural "oaks" to "oak"; the       *)
(* German model leaves the foreign token as it is.  Case is kept.          *)

Lemma(model, token) ==
    IF model = "en" /\ token = "oaks" THEN "oak" ELSE token

Lemmatize(model, text) == [k \in DOMAIN text |-> Lemma(model, text[k])]

---------------------------------------------------------------------------
(* Python containers *)

EmptyDict == [x \in {} |-> 0]

DictSet(d, key, value) ==
    [x \in DOMAIN d \cup {key} |-> IF x = key THEN value ELSE d[x]]

\* Mutant of SumValues: len(d) in place of sum(d.values()).
SumValuesCount(d) == Cardinality(DOMAIN d)

\* sum(d.values())
RECURSIVE SumValues(_)
SumValues(d) ==
    IF DOMAIN d = {} THEN 0
    ELSE LET x == CHOOSE y \in DOMAIN d : TRUE
         IN  d[x] + SumValues([y \in DOMAIN d \ {x} |-> d[y]])

Lower(token) == IF token = "Oak" THEN "oak" ELSE token

\* Mutant of Counter: tokens are compared without regard to case.
CounterCaseless(lemmatized_text) ==
    [w \in Range(lemmatized_text) |->
        Cardinality({k \in DOMAIN lemmatized_text :
                        Lower(lemmatized_text[k]) = Lower(w)})]

\* Counter(lemmatized_text)
Counter(lemmatized_text) ==
    [w \in Range(lemmatized_text) |->
        Cardinality({k \in DOMAIN lemmatized_text : lemmatized_text[k] = w})]

\* Iteration order of a set of strings in a process with hash order seed.
SetIter(S, seed) == SelectSeq(seed, LAMBDA w : w \in S)

\* An insertion-ordered dict: its keys in insertion order, and its values.
EmptyOrderedDict == [keys |-> <<>>, val |-> EmptyDict]

---------------------------------------------------------------------------
(* process_text, step by step *)

\* Mutant of WordToWordInfo: a later entry of a word replaces the earlier
\* ones instead of being appended.
WordToWordInfoLast(entries) ==
    [w \in {entries[k].word : k \in DOMAIN entries} |->
        LET same == SelectSeq(entries, LAMBDA e : e.word = w)
        IN  << same[Len(same)] >>]

\* lines 114-119: group the word list's entries by word
WordToWordInfo(entries) ==
    [w \in {entries[k].word : k \in DOMAIN entries} |->
        SelectSeq(entries, LAMBDA e : e.word = w)]

\* Mutant of UniqueWords: only the first entry's word is looked for.
UniqueWordsFirst(entries) ==
    IF entries = <<>> THEN {} ELSE {entries[1].word}

\* line 122
UniqueWords(entries) == {entries[k].word : k \in DOMAIN entries}

\* Mutant of SaveFrequencies: the count is added to the value already
\* stored under the segment id instead of replacing it.
RECURSIVE SaveFrequenciesAdd(_, _, _, _)
SaveFrequenciesAdd(d, ws, seg_id, counted) ==
    IF ws = <<>> THEN d
    ELSE LET word == Head(ws)
             d1   == IF word \in Range(d.keys) THEN d
                     ELSE [keys |-> Append(d.keys, word),
                           val  |-> DictSet(d.val, word, EmptyDict)]
             old  == IF seg_id \in DOMAIN d1.val[word]
                     THEN d1.val[word][seg_id] ELSE 0
             d2   == [d1 EXCEPT !.val =
                         DictSet(d1.val, word,
                                 DictSet(d1.val[word], seg_id,
                                         old + counted[word]))]
         IN  SaveFrequenciesAdd(d2, Tail(ws), seg_id, counted)

\* lines 141-146: for word in intersect
RECURSIVE SaveFrequencies(_, _, _, _)
SaveFrequencies(d, ws, seg_id, counted) ==
    IF ws = <<>> THEN d
    ELSE LET word == Head(ws)
             d1   == IF word \in Range(d.keys) THEN d
                     ELSE [keys |-> Append(d.keys, word),
                           val  |-> DictSet(d.val, word, EmptyDict)]
             d2   == [d1 EXCEPT !.val =
                         DictSet(d1.val, word,
                                 DictSet(d1.val[word], seg_id, counted[word]))]
         IN  SaveFrequencies(d2, Tail(ws), seg_id, counted)

\* lines 133-146: the body of the loop over the annotated segments
AnnotatedSegment(d, segment, model, words, seed) ==
    LET lemmatized_text == Lemmatize(model, segment.text)
        vocabulary == Range(lemmatized_text)
        counted    == Counter(lemmatized_text)
        intersect  == words \cap vocabulary
    IN  SaveFrequencies(d, SetIter(intersect, seed), segment.segment_id, counted)

\* line 149
AllSegmentIds(segs) == [k \in DOMAIN segs |-> segs[k].segment_id]

\* Mutant of ZeroFilled: the recorded counts, with no zero for the other ids.
ZeroFilledSparse(segment_frq, all_segment_ids) == segment_frq

\* lines 151-156
ZeroFilled(segment_frq, all_segment_ids) ==
    [seg_id \in Range(all_segment_ids) |->
        IF seg_id \in DOMAIN segment_frq THEN segment_frq[seg_id] ELSE 0]

\* lines 157-166: one WordInfoFrequency per entry of the word
WordInfoFrequency(word_infos, segment_frq, all_segment_ids) ==
    [k \in DOMAIN word_infos |->
        [word                |-> word_infos[k].word,
         wikidata_ids        |-> word_infos[k].wikidata_ids,
         category            |-> word_infos[k].category,
         segment_frequencies |-> ZeroFilled(segment_frq, all_segment_ids),
         overall_frequency   |-> SumValues(segment_frq)]]

\* Mutant of ResultOrder: the words are visited in alphabetical order.
ResultOrderSorted(d) ==
    SelectSeq(<<"elm", "oak">>, LAMBDA w : w \in Range(d.keys))

\* line 150: the order in which the result visits the words
ResultOrder(d) == d.keys

\* lines 148-166
RECURSIVE BuildRecords(_, _, _, _)
BuildRecords(ws, d, infos, all_segment_ids) ==
    IF ws = <<>> THEN <<>>
    ELSE WordInfoFrequency(infos[Head(ws)], d.val[Head(ws)], all_segment_ids)
         \o BuildRecords(Tail(ws), d, infos, all_segment_ids)

---------------------------------------------------------------------------
(* Actions *)

\* lines 113-119
ReadWordList(t) ==
    /\ pc[t] = "start"
    /\ word_to_word_info' =
           [word_to_word_info EXCEPT ![t] = WordToWordInfo(word_list[t])]
    /\ pc' = [pc EXCEPT ![t] = "setup"]
    /\ UNCHANGED << hashseed, nlp, loads, segments, language, word_list,
                    unique_words, pipe_nlp, i, word_to_segment_frq, result >>

\* line 121, lines 94-108: load the language's model into the global nlp
SetupAnalysisComponents(t) ==
    /\ pc[t] = "setup"
    /\ nlp' = language[t]
    /\ loads' = [loads EXCEPT ![language[t]] = @ + 1]
    /\ pc' = [pc EXCEPT ![t] = "pipe"]
    /\ UNCHANGED << hashseed, segments, language, word_list, word_to_word_info,
                    unique_words, pipe_nlp, i, word_to_segment_frq, result >>

\* lines 122-131: the for statement reads the global nlp once, to call pipe
Pipe(t) ==
    /\ pc[t] = "pipe"
    /\ unique_words' = [unique_words EXCEPT ![t] = UniqueWords(word_list[t])]
    /\ word_to_segment_frq' = [word_to_segment_frq EXCEPT ![t] = EmptyOrderedDict]
    /\ pipe_nlp' = [pipe_nlp EXCEPT ![t] = nlp]
    /\ i' = [i EXCEPT ![t] = 1]
    /\ pc' = [pc EXCEPT ![t] = "annotate"]
    /\ UNCHANGED << hashseed, nlp, loads, segments, language, word_list,
                    word_to_word_info, result >>

\* lines 127-146: one iteration of the loop
AnnotateSegment(t) ==
    /\ pc[t] = "annotate"
    /\ i[t] <= Len(segments[t])
    /\ word_to_segment_frq' =
           [word_to_segment_frq EXCEPT ![t] =
               AnnotatedSegment(@, segments[t][i[t]], pipe_nlp[t],
                                unique_words[t], hashseed)]
    /\ i' = [i EXCEPT ![t] = @ + 1]
    /\ UNCHANGED << hashseed, nlp, loads, segments, language, word_list, pc,
                    word_to_word_info, unique_words, pipe_nlp, result >>

\* lines 148-170: the loop is exhausted; build and return the result
BuildResult(t) ==
    /\ pc[t] = "annotate"
    /\ i[t] > Len(segments[t])
    /\ result' =
           [result EXCEPT ![t] =
               BuildRecords(ResultOrder(word_to_segment_frq[t]),
                            word_to_segment_frq[t], word_to_word_info[t],
                            AllSegmentIds(segments[t]))]
    /\ pc' = [pc EXCEPT ![t] = "done"]
    /\ UNCHANGED << hashseed, nlp, loads, segments, language, word_list,
                    word_to_word_info, unique_words, pipe_nlp, i,
                    word_to_segment_frq >>

ProcessText(t) ==
    \/ ReadWordList(t)
    \/ SetupAnalysisComponents(t)
    \/ Pipe(t)
    \/ AnnotateSegment(t)
    \/ BuildResult(t)

---------------------------------------------------------------------------
(* The command-line run: lines 173-185 *)

InitLocals ==
    /\ nlp = "none"
    /\ loads = [l \in Language |-> 0]
    /\ word_to_word_info = [t \in Threads |-> EmptyDict]
    /\ unique_words = [t \in Threads |-> {}]
    /\ pipe_nlp = [t \in Threads |-> "none"]
    /\ i = [t \in Threads |-> 0]
    /\ word_to_segment_frq = [t \in Threads |-> EmptyOrderedDict]
    /\ result = [t \in Threads |-> <<>>]

Init ==
    /\ hashseed \in Seeds
    /\ \E segs \in Requests :
           segments = [t \in Threads |-> IF t = MainThread THEN segs ELSE <<>>]
    /\ \E lang \in Language : language = [t \in Threads |-> lang]
    /\ \E wl \in WordLists :
           word_list = [t \in Threads |-> IF t = MainThread THEN wl ELSE <<>>]
    /\ pc = [t \in Threads |-> IF t = MainThread THEN "start" ELSE "idle"]
    /\ InitLocals

Next == ProcessText(MainThread)

Spec == Init /\ [][Next]_vars

---------------------------------------------------------------------------
(* The service: two requests on two worker threads of one process *)

\* The word list at DEFAULT_WORD_LIST_URL (line 33), as far as it matters.
ServerWordList ==
    << [word |-> "oak", wikidata_ids |-> <<"Q1">>, category |-> "plant"],
       [word |-> "elm", wikidata_ids |-> <<"Q3">>, category |-> "plant"] >>

ServerRequests ==
    { << [segment_id |-> "s1", text |-> <<"oaks", "elm">>] >>,
      << [segment_id |-> "s1", text |-> <<"elm">>],
         [segment_id |-> "s2", text |-> <<"oaks">>] >> }

InitServer ==
    /\ hashseed \in Seeds
    /\ segments \in [Threads -> ServerRequests]
    /\ language \in [Threads -> Language]
    /\ word_list = [t \in Threads |-> ServerWordList]
    /\ pc = [t \in Threads |-> "start"]
    /\ InitLocals

\* The service process is restarted while no request is being handled: a
\* new hash seed, and the global nlp unset until the next request.
Restart ==
    /\ \A t \in Threads : pc[t] \in {"start", "done"}
    /\ hashseed' \in Seeds
    /\ nlp' = "none"
    /\ loads' = [l \in Language |-> 0]
    /\ UNCHANGED << segments, language, word_list, pc, word_to_word_info,
                    unique_words, pipe_nlp, i, word_to_segment_frq, result >>

NextServer ==
    \/ \E t \in Threads : ProcessText(t)
    \/ Restart

SpecServer == InitServer /\ [][NextServer]_vars

---------------------------------------------------------------------------
(* What the claims speak of, stated on the request and the lemmatizer's    *)
(* output alone                                                            *)

Done(t) == pc[t] = "done"

\* The lemma sequences nlp.pipe returned for the request's segments.
Lemmas(t) ==
    [k \in DOMAIN segments[t] |-> Lemmatize(pipe_nlp[t], segments[t][k].text)]

\* Number of tokens of seq that are exactly w.
RECURSIVE Occ(_, _)
Occ(seq, w) ==
    IF seq = <<>> THEN 0
    ELSE (IF Head(seq) = w THEN 1 ELSE 0) + Occ(Tail(seq), w)

RECURSIVE OccUpTo(_, _, _)
OccUpTo(t, w, n) ==
    IF n = 0 THEN 0 ELSE Occ(Lemmas(t)[n], w) + OccUpTo(t, w, n - 1)

\* Occurrences of w summed over all segments of the request.
TotalOcc(t, w) == OccUpTo(t, w, Len(segments[t]))

IdSet(t) == {segments[t][k].segment_id : k \in DOMAIN segments[t]}

UniqueIds(t) ==
    \A j, k \in DOMAIN segments[t] :
        j # k => segments[t][j].segment_id # segments[t][k].segment_id

RECURSIVE SumOver(_, _)
SumOver(f, S) ==
    IF S = {} THEN 0
    ELSE LET x == CHOOSE y \in S : TRUE IN f[x] + SumOver(f, S \ {x})

EntryOf(rec) ==
    [word |-> rec.word, wikidata_ids |-> rec.wikidata_ids,
     category |-> rec.category]

EntriesOf(recs) == [k \in DOMAIN recs |-> EntryOf(recs[k])]

\* Index of the first segment in which w occurs (0: in none).
FirstSeg(t, w) ==
    LET K == {k \in DOMAIN segments[t] : Occ(Lemmas(t)[k], w) > 0}
    IN  IF K = {} THEN 0 ELSE CHOOSE k \in K : \A j \in K : k <= j

SegFrq(t, r) == result[t][r].segment_frequencies

\* The segment ids carried by two or more segments of the request.
DupIds(t) ==
    {id \in IdSet(t) :
        Cardinality({k \in DOMAIN segments[t] : segments[t][k].segment_id = id}) > 1}

\* Index of the last segment carrying id.
LastWithId(t, id) ==
    CHOOSE k \in DOMAIN segments[t] :
        /\ segments[t][k].segment_id = id
        /\ \A j \in DOMAIN segments[t] : segments[t][j].segment_id = id => j <= k

\* Indices of the segments carrying id in which w occurs.
OccurringWithId(t, id, w) ==
    {k \in DOMAIN segments[t] :
        segments[t][k].segment_id = id /\ Occ(Lemmas(t)[k], w) > 0}

---------------------------------------------------------------------------
(* Claims *)

\* C1. Zero-fill completeness: the keys of every emitted record's
\* segment_frequencies are exactly the segment ids of the request.
ZeroFillCompleteness ==
    \A t \in Threads : Done(t) =>
        \A r \in DOMAIN result[t] : DOMAIN SegFrq(t, r) = IdSet(t)

\* C1 witness: a record over two segment ids, one of them zero-filled.
ZeroFillWitness ==
    \E t \in Threads :
        /\ Done(t)
        /\ Cardinality(IdSet(t)) = 2
        /\ \E r \in DOMAIN result[t] :
              /\ DOMAIN SegFrq(t, r) = IdSet(t)
              /\ \E id \in IdSet(t) : SegFrq(t, r)[id] = 0

\* C2. Emission iff occurrence: an entry of the word list is in the output
\* exactly when its word occurs at least once over all segments; every
\* emitted record has overall_frequency >= 1 and a non-zero segment count.
EmissionIffOccurrence ==
    \A t \in Threads : Done(t) =>
        /\ \A k \in DOMAIN word_list[t] :
              (word_list[t][k] \in Range(EntriesOf(result[t])))
                  <=> (TotalOcc(t, word_list[t][k].word) >= 1)
        /\ Range(EntriesOf(result[t])) \subseteq Range(word_list[t])
        /\ \A r \in DOMAIN result[t] :
              /\ result[t][r].overall_frequency >= 1
              /\ \E id \in DOMAIN SegFrq(t, r) : SegFrq(t, r)[id] >= 1

\* C2 witness: of two entries with different words one is emitted, the
\* other, whose word does not occur, is omitted.
EmissionWitness ==
    \E t \in Threads :
        /\ Done(t)
        /\ Len(word_list[t]) = 2
        /\ word_list[t][1].word # word_list[t][2].word
        /\ Len(result[t]) = 1
        /\ TotalOcc(t, result[t][1].word) >= 1

\* C3. Conservation: overall_frequency is the sum of the zero-filled map
\* and, segment ids being unique, the sum of the word's occurrences over
\* all segments.
Conservation ==
    \A t \in Threads : Done(t) =>
        \A r \in DOMAIN result[t] :
            /\ result[t][r].overall_frequency
                   = SumOver(SegFrq(t, r), DOMAIN SegFrq(t, r))
            /\ UniqueIds(t) =>
                   result[t][r].overall_frequency = TotalOcc(t, result[t][r].word)

\* C3 witness: unique ids, two segments, a word occurring twice in all.
ConservationWitness ==
    \E t \in Threads :
        /\ Done(t)
        /\ UniqueIds(t)
        /\ Len(segments[t]) = 2
        /\ \E r \in DOMAIN result[t] :
              /\ result[t][r].overall_frequency = 2
              /\ TotalOcc(t, result[t][r].word) = 2

\* C4. Homograph fan-out: the entries sharing a word that occurs are each
\* emitted as a record of their own, with identical segment_frequencies
\* and overall_frequency.
HomographFanOut ==
    \A t \in Threads : Done(t) =>
        \A w \in Words : TotalOcc(t, w) >= 1 =>
            /\ SelectSeq(EntriesOf(result[t]), LAMBDA e : e.word = w)
                   = SelectSeq(word_list[t], LAMBDA e : e.word = w)
            /\ \A a, b \in DOMAIN result[t] :
                   (result[t][a].word = w /\ result[t][b].word = w) =>
                       /\ SegFrq(t, a) = SegFrq(t, b)
                       /\ result[t][a].overall_frequency
                              = result[t][b].overall_frequency

\* C4 witness: two records of one word with different categories.
HomographWitness ==
    \E t \in Threads :
        /\ Done(t)
        /\ \E a, b \in DOMAIN result[t] :
              /\ a # b
              /\ result[t][a].word = result[t][b].word
              /\ result[t][a].category # result[t][b].category
              /\ result[t][a].wikidata_ids # result[t][b].wikidata_ids

\* The distinct words of the records, in the order of their first record.
RECURSIVE DistinctWords(_, _)
DistinctWords(recs, seen) ==
    IF recs = <<>> THEN <<>>
    ELSE IF Head(recs).word \in seen THEN DistinctWords(Tail(recs), seen)
    ELSE << Head(recs).word >>
         \o DistinctWords(Tail(recs), seen \cup {Head(recs).word})

\* C5. Order law: the distinct words of the output are in the order in
\* which the scan of the segments first recorded them; so records are
\* ordered by the first segment, in input order, that contains their word
\* (a word first contained in an earlier segment comes before every word
\* first contained in a later one), and the records of one word stand
\* together.
OrderLaw ==
    \A t \in Threads : Done(t) =>
        /\ DistinctWords(result[t], {}) = word_to_segment_frq[t].keys
        /\ \A a, b \in DOMAIN result[t] : a < b =>
               /\ FirstSeg(t, result[t][a].word) >= 1
               /\ FirstSeg(t, result[t][a].word) <= FirstSeg(t, result[t][b].word)
               /\ result[t][a].word = result[t][b].word =>
                      \A c \in a..b : result[t][c].word = result[t][a].word

\* C5 witness: "oak" first occurs in an earlier segment than "elm" and is
\* emitted first, against the word list's order and the alphabet.
OrderWitness ==
    \E t \in Threads :
        /\ Done(t)
        /\ Len(result[t]) = 2
        /\ Len(word_list[t]) = 2
        /\ word_list[t][1].word = "elm"
        /\ result[t][1].word = "oak"
        /\ result[t][2].word = "elm"
        /\ FirstSeg(t, "oak") = 1
        /\ FirstSeg(t, "elm") = 2

\* C6. Determinism: two runs on the same segments, word list and language,
\* given the same lemma sequences, return the same records in the same
\* order.
Determinism ==
    \A t, u \in Threads :
        ( /\ Done(t) /\ Done(u)
          /\ segments[t] = segments[u]
          /\ word_list[t] = word_list[u]
          /\ language[t] = language[u]
          /\ Lemmas(t) = Lemmas(u) )
        => result[t] = result[u]

\* C7. No race on the lemmatizer: every request's segments are lemmatized
\* by the model of the request's own language.
OwnLanguageLemmatizer ==
    \A t \in Threads :
        pc[t] \in {"annotate", "done"} => pipe_nlp[t] = language[t]

\* C8. Build once: in one process the model of a language is loaded at most
\* once.
BuildOnce == \A l \in Language : loads[l] <= 1

\* C9. Per-segment counts: with unique segment ids, the value under a
\* segment's id is the number of its lemma tokens exactly equal to the
\* record's word, and every record's word is a word of the word list.
PerSegmentCount ==
    \A t \in Threads : (Done(t) /\ UniqueIds(t)) =>
        \A r \in DOMAIN result[t] :
            /\ result[t][r].word \in {word_list[t][k].word : k \in DOMAIN word_list[t]}
            /\ \A k \in DOMAIN segments[t] :
                  /\ segments[t][k].segment_id \in DOMAIN SegFrq(t, r)
                  /\ SegFrq(t, r)[segments[t][k].segment_id]
                         = Occ(Lemmas(t)[k], result[t][r].word)

\* C9 witness: a segment holds the lemmas "oak" and "Oak"; the record of
\* "oak" counts one.
PerSegmentCountWitness ==
    \E t \in Threads :
        /\ Done(t)
        /\ UniqueIds(t)
        /\ \E r \in DOMAIN result[t] : \E k \in DOMAIN segments[t] :
              /\ result[t][r].word = "oak"
              /\ "Oak" \in Range(Lemmas(t)[k])
              /\ SegFrq(t, r)[segments[t][k].segment_id] = 1

=============================================================================
